---- MODULE Spec2Model ----
(***************************************************************************)
(* Model of the HAWK-I exposure time calculator, src/src/etc.py (class     *)
(* ETC).                                                                   *)
(*                                                                         *)
(* Quantities are carried as exact integers in fixed units:                *)
(*   flux                ph / s / m^2            (hmbp's return value)     *)
(*   telescope_size      m^2                     (pi * 4^2 = 50.27 -> 50)  *)
(*   pixel_scale         1e-4 / pixel            (0.1063^2 = 0.0113)       *)
(*   photons             1e-4 ph / pixel / s                               *)
(*   quantum_efficiency  1e-1 electron / ph      (0.8)                     *)
(*   dark_noise          1e-2 electron / pixel / s  (0.01)                 *)
(*   signal, limits, readout noise   electron / pixel                      *)
(*   dit, exposure time  s                                                 *)
(*   moon_illumination   1e-2                    (0.5 is 50)               *)
(* The inputs (fluxes that are multiples of 5, integration times that are  *)
(* multiples of 100 s) make every division below exact.  A signal-to-noise *)
(* ratio signal / (noise + sqrt(signal)) is irrational in general: it is   *)
(* carried as the pair (signal, noise) and compared exactly.               *)
(***************************************************************************)
EXTENDS Integers, Sequences, FiniteSets, TLC

VARIABLES etc, twin

vars == <<etc, twin>>

\* ------------------------------------------------------------ class attributes

bands == <<"Ks", "Y", "J", "H", "CH4", "H2", "NB1060", "NB1190", "NB2090", "BrGamma">>

readout_noise == 5

dark_noise == 1

pixel_scale == 113

telescope_size == 50

quantum_efficiency == 8

linearity_limit == 100000

saturation_limit == 120000

\* functools.lru_cache() without arguments keeps the 128 most recently used keys
maxsize == 128

\* u.hour in seconds
hour == 3600

\* ------------------------------------------------------------ bounds and inputs

\* get_snr is called directly with ndit in 1..MaxNdit
MaxNdit == 3

\* the magnitude sweep of SpecLRU queries the magnitudes 0..MaxScanMag
MaxScanMag == 129

BandInputs == {"H2", "A"}

Mags == {0, 20}

Dits == {1800, 3600, 12000}

BadDits == {0}

TargetSnrs == {-5, 0, 7, 65, 400}

\* inputs of initialize_observing_conditions beside the other operations
Seeings == {2}

Airmasses == {2}

MoonInputs == {0, 110}

\* inputs of the specification of initialize_observing_conditions
CondSeeings == {1, 2, 3}

CondAirmasses == {0, 1, 2, 3}

CondMoons == {-10, -1, 0, 1, 50, 99, 100, 101, 110}

\* inputs of the two-calculator specification
PairDits == {1800, 3600}

PairTargets == {7, 65, 400}

PairSeeings == {1, 3}

PairAirmasses == {3}

PairMoons == {-10, 100}

\* ------------------------------------------------------------ advisories (print)

LinearityWarning == "WARNING: Signal is above the linearity limit of the detector"

SaturationWarning == "WARNING: Signal is above the saturation limit of the detector"

OneHourWarning == "WARNING: total exposure time is longer than 1 hour"

ThreeHourWarning == "WARNING: The maximum exposure time of 3 hours was reached. Stopping the calculation."

\* ------------------------------------------------------------ signal-to-noise values

\* the value signal / (noise + sqrt(signal)); Zero is the literal 0
Zero == [signal |-> 0, noise |-> 1]

RECURSIVE isqrt(_, _, _)
\* floor(sqrt(s)), by bisection on lo..hi
isqrt(s, lo, hi) ==
    IF lo >= hi THEN lo
    ELSE LET mid == (lo + hi + 1) \div 2
         IN IF mid * mid <= s THEN isqrt(s, mid, hi) ELSE isqrt(s, lo, mid - 1)

\* v >= t for a signal-to-noise value v and an integer t:
\* signal / (noise + sqrt(signal)) >= t  <=>  t * sqrt(signal) <= signal - t * noise
SnrGE(v, t) ==
    IF t <= 0 THEN TRUE
    ELSE LET a == v.signal - t * v.noise
             r == isqrt(v.signal, 0, 46340)
             d == v.signal - r * r
         IN IF a < t * r THEN FALSE
            ELSE IF a >= t * (r + 1) THEN TRUE
            ELSE LET c == a - t * r
                 IN t * t * d <= 2 * t * r * c + c * c

SnrLess(v, t) == ~SnrGE(v, t)

\* ------------------------------------------------------------ the external library

\* hmbp.for_flux_in_filter: a fixed positive function of (band, magnitude),
\* brighter for smaller magnitudes
for_flux_in_filter(band, mag) ==
    IF mag <= 0 THEN 150 ELSE IF mag < 20 THEN 50 ELSE 5

\* ------------------------------------------------------------ the calculator

InitETC ==
    [ readout_noise      |-> readout_noise,
      dark_noise         |-> dark_noise,
      pixel_scale        |-> pixel_scale,
      telescope_size     |-> telescope_size,
      quantum_efficiency |-> quantum_efficiency,
      linearity_limit    |-> linearity_limit,
      saturation_limit   |-> saturation_limit,
      seeing             |-> 1,
      airmass            |-> 1,
      moon_illumination  |-> 50,
      \* lru_cache of photons_in_filter, least recently used first
      cache              |-> << >>,
      \* number of calls of hmbp.for_flux_in_filter per (band, mag)
      hmbp_calls         |-> << >>,
      \* the last get_snr evaluation: its arguments, the saturation limit it
      \* compared against, and the accumulated signal it divided by the noise
      snr_ndit           |-> 0,
      snr_limit          |-> saturation_limit,
      snr_signal         |-> 0,
      \* the frame of get_ndit
      pc                 |-> "idle",
      band               |-> "H2",
      snr                |-> 0,
      mag                |-> 0,
      dit                |-> 0,
      is_warning         |-> FALSE,
      snr_n              |-> Zero,
      ndit               |-> 0,
      snr_evals          |-> 0,
      \* the last call: its name, its arguments (band, mag and dit above, and those
      \* of initialize_observing_conditions), what it printed, raised or returned
      seeing_arg         |-> 1,
      moon_arg           |-> 50,
      airmass_arg        |-> 1,
      op                 |-> "none",
      stdout             |-> << >>,
      raised             |-> "none",
      ret                |-> 0,
      ret_snr            |-> Zero ]

Calls(self, key) == IF key \in DOMAIN self.hmbp_calls THEN self.hmbp_calls[key] ELSE 0

InBands(band) == \E i \in 1..Len(bands) : bands[i] = band

\* photons_body without the check of the band
photons_body_unchecked(self, band, mag) ==
    LET key == <<band, mag>>
        photons == for_flux_in_filter(band, mag) * self.telescope_size * self.pixel_scale
    IN [st |-> [self EXCEPT !.hmbp_calls =
                   [k \in DOMAIN self.hmbp_calls \cup {key} |->
                       IF k = key THEN Calls(self, key) + 1 ELSE self.hmbp_calls[k]]],
        raised |-> "none",
        value |-> photons]

\* the body of photons_in_filter, run on a cache miss
photons_body(self, band, mag) ==
    IF ~InBands(band)
    THEN [st |-> self, raised |-> "ValueError", value |-> 0]
    ELSE LET key == <<band, mag>>
             photons == for_flux_in_filter(band, mag) * self.telescope_size * self.pixel_scale
         IN [st |-> [self EXCEPT !.hmbp_calls =
                        [k \in DOMAIN self.hmbp_calls \cup {key} |->
                            IF k = key THEN Calls(self, key) + 1 ELSE self.hmbp_calls[k]]],
             raised |-> "none",
             value |-> photons]

\* cache_find of a cache that never hits
cache_find_never(cache, key) == 0

\* the position of key in the cache, 0 when absent
cache_find(cache, key) ==
    IF \E i \in 1..Len(cache) : cache[i].key = key
    THEN CHOOSE i \in 1..Len(cache) : cache[i].key = key
    ELSE 0

Remove(seq, i) == SubSeq(seq, 1, i - 1) \o SubSeq(seq, i + 1, Len(seq))

\* photons_in_filter under @lru_cache(): a hit returns the stored value and makes
\* the key the most recently used; a miss runs the body and stores its value,
\* dropping the least recently used entry of a full cache; an exception stores nothing
photons_in_filter(self, band, mag) ==
    LET key == <<band, mag>>
        i == cache_find(self.cache, key)
    IN IF i > 0
       THEN [st |-> [self EXCEPT !.cache = Append(Remove(@, i), self.cache[i])],
             raised |-> "none",
             value |-> self.cache[i].value]
       ELSE LET b == photons_body(self, band, mag)
                kept == IF Len(self.cache) >= maxsize THEN Tail(self.cache) ELSE self.cache
            IN IF b.raised # "none" THEN b
               ELSE [b EXCEPT !.st.cache = Append(kept, [key |-> key, value |-> b.value])]

\* initialize_observing_conditions with the upper end of the range excluded
initialize_exclusive(self, seeing, moon_illumination, airmass) ==
    IF ~(0 <= moon_illumination /\ moon_illumination < 100)
    THEN [st |-> self, raised |-> "ValueError", value |-> 0]
    ELSE [st |-> [self EXCEPT !.moon_illumination = moon_illumination,
                              !.airmass = airmass,
                              !.seeing = seeing],
          raised |-> "none",
          value |-> 0]

\* initialize_observing_conditions
initialize_observing_conditions(self, seeing, moon_illumination, airmass) ==
    IF ~(0 <= moon_illumination /\ moon_illumination <= 100)
    THEN [st |-> self, raised |-> "ValueError", value |-> 0]
    ELSE [st |-> [self EXCEPT !.moon_illumination = moon_illumination,
                              !.airmass = airmass,
                              !.seeing = seeing],
          raised |-> "none",
          value |-> 0]

\* detector_noise with a dark noise that grows with the airmass
detector_noise_airmass(self, dit, ndit) ==
    self.readout_noise * ndit + (self.dark_noise * (dit * ndit) * self.airmass) \div 100

\* readout_noise + dark_noise of get_snr, the part of the noise besides sqrt(signal)
detector_noise(self, dit, ndit) ==
    self.readout_noise * ndit + (self.dark_noise * (dit * ndit)) \div 100

\* clamp without the saturation check
clamp_none(self, signal) == signal

\* the per-exposure signal after the saturation check of get_snr
clamp(self, signal) ==
    IF signal > self.saturation_limit THEN self.saturation_limit ELSE signal

\* get_snr.  "signal = self.saturation_limit" binds the class attribute itself, and
\* "signal *= ndit" multiplies a Quantity in place: a saturated call multiplies
\* ETC.saturation_limit by ndit
get_snr(self, band, mag, dit, ndit) ==
    LET p == photons_in_filter(self, band, mag)
    IN IF p.raised # "none" THEN [p EXCEPT !.value = Zero]
       ELSE LET s0 == p.st
                signal_dit == (p.value * (dit \div 100) * s0.quantum_efficiency) \div 1000
                lin == IF signal_dit > s0.linearity_limit THEN <<LinearityWarning>> ELSE << >>
                saturated == signal_dit > s0.saturation_limit
                sat == IF saturated THEN <<SaturationWarning>> ELSE << >>
                signal == clamp(s0, signal_dit) * ndit
            IN [st |-> [s0 EXCEPT !.stdout = @ \o lin \o sat,
                                  !.saturation_limit = IF saturated THEN @ * ndit ELSE @,
                                  !.snr_ndit = ndit,
                                  !.snr_limit = s0.saturation_limit,
                                  !.snr_signal = signal],
                raised |-> "none",
                value |-> [signal |-> signal, noise |-> detector_noise(s0, dit, ndit)]]

\* the "while snr_n < snr" test of get_ndit
loop_continues(self) == SnrLess(self.snr_n, self.snr)

\* time_limit_reached with the limit at 1 hour
time_limit_one_hour(self) == self.ndit * self.dit >= 1 * hour

\* time_limit_reached with a strict comparison
time_limit_strict(self) == self.ndit * self.dit > 3 * hour

\* the 3 hour test of get_ndit, after ndit was incremented
time_limit_reached(self) == self.ndit * self.dit >= 3 * hour

\* long_exposure without the is_warning flag
long_exposure_unflagged(self) == self.ndit * self.dit >= 1 * hour

\* the 1 hour test of get_ndit, after ndit was incremented
long_exposure(self) == self.ndit * self.dit >= 1 * hour /\ ~self.is_warning

\* a call starts: nothing printed, raised or returned yet, and the frames of the
\* previous call are gone
begin(self, op) ==
    [self EXCEPT !.op = op, !.stdout = << >>, !.raised = "none", !.ret = 0, !.ret_snr = Zero,
                 !.snr_ndit = 0, !.snr_limit = self.saturation_limit, !.snr_signal = 0,
                 !.band = "H2", !.snr = 0, !.mag = 0, !.dit = 0,
                 !.seeing_arg = 1, !.moon_arg = 50, !.airmass_arg = 1,
                 !.is_warning = FALSE, !.snr_n = Zero, !.ndit = 0, !.snr_evals = 0]

\* get_ndit up to the loop
get_ndit_enter(self, band, snr, mag, dit) ==
    LET s == begin(self, "get_ndit")
    IN IF dit <= 0
       THEN [s EXCEPT !.raised = "ValueError",
                      !.band = band, !.snr = snr, !.mag = mag, !.dit = dit]
       ELSE [s EXCEPT !.pc = "while", !.band = band, !.snr = snr, !.mag = mag, !.dit = dit,
                      !.is_warning = FALSE, !.snr_n = Zero, !.ndit = 0, !.snr_evals = 0]

\* one iteration of the loop of get_ndit
get_ndit_loop(self) ==
    LET n == self.ndit + 1
        r == get_snr(self, self.band, self.mag, self.dit, n)
        s1 == [r.st EXCEPT !.ndit = n, !.snr_evals = @ + 1]
    IN IF r.raised # "none"
       THEN [s1 EXCEPT !.raised = r.raised, !.pc = "idle"]
       ELSE LET s2 == [s1 EXCEPT !.snr_n = r.value]
                s3 == IF long_exposure(s2)
                      THEN [s2 EXCEPT !.stdout = Append(@, OneHourWarning),
                                      !.is_warning = TRUE]
                      ELSE s2
            IN IF time_limit_reached(s3)
               THEN [s3 EXCEPT !.stdout = Append(@, ThreeHourWarning), !.pc = "return"]
               ELSE s3

\* "return ndit"
get_ndit_return(self) == [self EXCEPT !.ret = self.ndit, !.pc = "idle"]

CanLoop(self) == self.pc = "while" /\ loop_continues(self)

CanReturn(self) == self.pc = "return" \/ (self.pc = "while" /\ ~loop_continues(self))

\* the next step of a running get_ndit
get_ndit_step(self) ==
    IF CanLoop(self) THEN get_ndit_loop(self)
    ELSE IF CanReturn(self) THEN get_ndit_return(self)
    ELSE self

\* the state after a finished call
finish(r) == [r.st EXCEPT !.raised = r.raised]

call_photons_in_filter(self, band, mag) ==
    LET r == photons_in_filter(begin(self, "photons_in_filter"), band, mag)
    IN [finish(r) EXCEPT !.ret = r.value, !.band = band, !.mag = mag]

call_initialize(self, seeing, moon_illumination, airmass) ==
    LET r == initialize_observing_conditions(begin(self, "initialize_observing_conditions"),
                                             seeing, moon_illumination, airmass)
    IN [finish(r) EXCEPT !.seeing_arg = seeing, !.moon_arg = moon_illumination,
                         !.airmass_arg = airmass]

call_get_snr(self, band, mag, dit, ndit) ==
    LET r == get_snr(begin(self, "get_snr"), band, mag, dit, ndit)
    IN [finish(r) EXCEPT !.ret_snr = r.value, !.band = band, !.mag = mag, !.dit = dit]

\* ------------------------------------------------------------ one calculator

Init == etc = InitETC /\ twin = InitETC

PhotonsInFilter ==
    /\ etc.pc = "idle"
    /\ \E band \in BandInputs, mag \in Mags :
          etc' = call_photons_in_filter(etc, band, mag)
    /\ UNCHANGED twin

InitializeObservingConditions ==
    /\ etc.pc = "idle"
    /\ \E seeing \in Seeings, moon \in MoonInputs, airmass \in Airmasses :
          etc' = call_initialize(etc, seeing, moon, airmass)
    /\ UNCHANGED twin

GetSnr ==
    /\ etc.pc = "idle"
    /\ \E band \in BandInputs, mag \in Mags, dit \in Dits, ndit \in 1..MaxNdit :
          etc' = call_get_snr(etc, band, mag, dit, ndit)
    /\ UNCHANGED twin

GetNdit ==
    /\ etc.pc = "idle"
    /\ \E band \in BandInputs, snr \in TargetSnrs, mag \in Mags, dit \in Dits \cup BadDits :
          etc' = get_ndit_enter(etc, band, snr, mag, dit)
    /\ UNCHANGED twin

GetNditLoop ==
    /\ CanLoop(etc)
    /\ etc' = get_ndit_loop(etc)
    /\ UNCHANGED twin

GetNditReturn ==
    /\ CanReturn(etc)
    /\ etc' = get_ndit_return(etc)
    /\ UNCHANGED twin

Next ==
    \/ PhotonsInFilter
    \/ InitializeObservingConditions
    \/ GetSnr
    \/ GetNdit
    \/ GetNditLoop
    \/ GetNditReturn

Spec == Init /\ [][Next]_vars

\* A call that has started runs on: the program is single-threaded and nothing
\* suspends the loop of get_ndit
SpecFair == Spec /\ WF_vars(GetNditLoop) /\ WF_vars(GetNditReturn)

\* ------------------------------------------------------------ observing conditions

CondInitialize ==
    /\ \E seeing \in CondSeeings, moon \in CondMoons, airmass \in CondAirmasses :
          etc' = call_initialize(etc, seeing, moon, airmass)
    /\ UNCHANGED twin

CondNext == CondInitialize

SpecConditions == Init /\ [][CondNext]_vars

\* ------------------------------------------------------------ a magnitude sweep

\* photons_in_filter of the first magnitude of the sweep, at any point of the sweep
ScanFirst ==
    /\ etc' = call_photons_in_filter(etc, "H2", 0)
    /\ UNCHANGED twin

\* photons_in_filter of the next magnitude of the sweep
ScanFresh ==
    /\ \E mag \in 1..MaxScanMag :
          /\ Calls(etc, <<"H2", mag>>) = 0
          /\ Calls(etc, <<"H2", mag - 1>>) > 0
          /\ etc' = call_photons_in_filter(etc, "H2", mag)
    /\ UNCHANGED twin

ScanNext == ScanFirst \/ ScanFresh

SpecLRU == Init /\ [][ScanNext]_vars

\* ------------------------------------------------------------ two calculators

\* etc and twin are two calculators, each in a process of its own, that receive the
\* same calls with the same arguments, except that each gets observing conditions
\* of its own
PairInitialize ==
    /\ etc.pc = "idle"
    /\ \E seeing \in Seeings, moon \in MoonInputs, airmass \in Airmasses :
          etc' = call_initialize(etc, seeing, moon, airmass)
    /\ \E seeing \in PairSeeings, moon \in PairMoons, airmass \in PairAirmasses :
          twin' = call_initialize(twin, seeing, moon, airmass)

PairPhotonsInFilter ==
    /\ etc.pc = "idle"
    /\ \E band \in BandInputs, mag \in Mags :
          /\ etc' = call_photons_in_filter(etc, band, mag)
          /\ twin' = call_photons_in_filter(twin, band, mag)

PairGetSnr ==
    /\ etc.pc = "idle"
    /\ \E band \in BandInputs, mag \in Mags, dit \in PairDits, ndit \in 1..MaxNdit :
          /\ etc' = call_get_snr(etc, band, mag, dit, ndit)
          /\ twin' = call_get_snr(twin, band, mag, dit, ndit)

PairGetNdit ==
    /\ etc.pc = "idle"
    /\ \E band \in BandInputs, snr \in PairTargets, mag \in Mags, dit \in PairDits :
          /\ etc' = get_ndit_enter(etc, band, snr, mag, dit)
          /\ twin' = get_ndit_enter(twin, band, snr, mag, dit)

PairGetNditStep ==
    /\ etc.pc # "idle"
    /\ etc' = get_ndit_step(etc)
    /\ twin' = get_ndit_step(twin)

PairNext ==
    \/ PairInitialize
    \/ PairPhotonsInFilter
    \/ PairGetSnr
    \/ PairGetNdit
    \/ PairGetNditStep

SpecPair == Init /\ [][PairNext]_vars

\* ------------------------------------------------------------ properties

Count(seq, x) == Cardinality({i \in 1..Len(seq) : seq[i] = x})

\* get_ndit has returned a value
Returned(self) == self.op = "get_ndit" /\ self.pc = "idle" /\ self.raised = "none"

\* C1: for a supported band, dit > 0 and target_snr > 0, get_ndit returns (it does
\* not raise) an n >= 1 such that the signal-to-noise ratio the search computed for
\* n, and the one get_snr(band, mag, dit, n) gives when called next, is >= target_snr,
\* or n * dit >= 3 hours
C1_NditReachesTargetOrCutoff ==
    (etc.op = "get_ndit" /\ etc.pc = "idle" /\ InBands(etc.band) /\ etc.dit > 0 /\ etc.snr > 0)
        => /\ etc.raised = "none"
           /\ etc.ret >= 1
           /\ \/ etc.ret * etc.dit >= 3 * hour
              \/ /\ SnrGE(etc.snr_n, etc.snr)
                 /\ SnrGE(get_snr(etc, etc.band, etc.mag, etc.dit, etc.ret).value, etc.snr)

\* a search that reached its target at the third exposure or later, before 3 hours
C1_Witness ==
    /\ Returned(etc) /\ etc.snr > 0 /\ etc.ret >= 3
    /\ etc.ret * etc.dit < 3 * hour
    /\ SnrGE(etc.snr_n, etc.snr)

\* C2: every get_ndit call that returns, returns a value >= 1
C2_NditPositive == Returned(etc) => etc.ret >= 1

\* C3 as claimed: the accumulated signal that get_snr divides by the noise is never
\* above the saturation limit of 120000 electrons/pixel
C3_SignalBelowSaturation == etc.snr_signal <= saturation_limit

\* C3 as amended: the per-exposure signal that get_snr accumulates is never above
\* the saturation limit the calculator held when the call read it, so the
\* accumulated signal is never above ndit times that limit
C3_SignalBelowNditTimesLimit == etc.snr_signal <= etc.snr_ndit * etc.snr_limit

\* a saturated get_snr call of several exposures: the signal was clamped
C3_Witness ==
    /\ etc.op = "get_snr" /\ etc.raised = "none" /\ etc.snr_ndit >= 2
    /\ Count(etc.stdout, SaturationWarning) = 1
    /\ etc.snr_signal = etc.snr_ndit * etc.snr_limit

\* C4: the instrument profile keeps its initial values, and every get_snr call
\* compares against a saturation limit of 120000 electrons/pixel
C4_ProfileImmutable ==
    /\ etc.readout_noise = readout_noise
    /\ etc.dark_noise = dark_noise
    /\ etc.pixel_scale = pixel_scale
    /\ etc.telescope_size = telescope_size
    /\ etc.quantum_efficiency = quantum_efficiency
    /\ etc.linearity_limit = linearity_limit
    /\ etc.saturation_limit = saturation_limit
    /\ etc.snr_limit = saturation_limit

Conditions(self) == <<self.seeing, self.moon_illumination, self.airmass>>

\* C6: two calculators that got the same calls and differ only in their observing
\* conditions agree on what the last photons_in_filter, get_snr or get_ndit call
\* printed, raised and returned, and on the progress of a running get_ndit
C6_ConditionsNotUsed ==
    etc.op \in {"photons_in_filter", "get_snr", "get_ndit"}
        => /\ twin.op = etc.op
           /\ twin.stdout = etc.stdout
           /\ twin.raised = etc.raised
           /\ twin.ret = etc.ret
           /\ twin.ret_snr = etc.ret_snr
           /\ twin.pc = etc.pc
           /\ twin.ndit = etc.ndit
           /\ twin.snr_n = etc.snr_n

\* a get_ndit search of several exposures that printed advisories, on calculators
\* whose seeing, moon illumination and airmass all differ
C6_Witness ==
    /\ Returned(etc) /\ etc.ret >= 2 /\ Len(etc.stdout) >= 2
    /\ etc.seeing # twin.seeing
    /\ etc.moon_illumination # twin.moon_illumination
    /\ etc.airmass # twin.airmass

\* C7: initialize_observing_conditions raises exactly when moon_illumination is
\* outside [0, 1]; a call that raised left the stored conditions as they were, and
\* a call that returned stored its three arguments
C7_ConditionsValidated ==
    /\ [](etc.op = "initialize_observing_conditions"
            => /\ etc.raised = "ValueError" <=> ~(0 <= etc.moon_arg /\ etc.moon_arg <= 100)
               /\ etc.raised = "none"
                    => Conditions(etc) = <<etc.seeing_arg, etc.moon_arg, etc.airmass_arg>>)
    /\ [][etc'.raised = "ValueError" => Conditions(etc') = Conditions(etc)]_vars

\* a call that raised after an earlier call had stored other conditions
C7_Witness ==
    /\ etc.op = "initialize_observing_conditions" /\ etc.raised = "ValueError"
    /\ Conditions(etc) = <<3, 100, 0>>
    /\ etc.seeing_arg = 1 /\ etc.moon_arg = 101 /\ etc.airmass_arg = 2

\* the names of the list bands
Supported == {bands[i] : i \in 1..Len(bands)}

\* C8: photons_in_filter and get_snr with a band outside the list raise ValueError
\* and return nothing, whatever the state and however often they are called;
\* hmbp.for_flux_in_filter is never called for such a band and the cache never
\* holds an entry for it
C8_InvalidBandRaises ==
    /\ (etc.op \in {"photons_in_filter", "get_snr"} /\ etc.band \notin Supported)
          => etc.raised = "ValueError" /\ etc.ret = 0 /\ etc.ret_snr = Zero
    /\ \A key \in DOMAIN etc.hmbp_calls : key[1] \in Supported
    /\ \A i \in 1..Len(etc.cache) : etc.cache[i].key[1] \in Supported

\* get_snr with the band "A" raised on a calculator whose cache holds both pairs
C8_Witness ==
    /\ etc.op = "get_snr" /\ etc.band = "A" /\ etc.raised = "ValueError"
    /\ Len(etc.cache) = 2

\* C9: a get_ndit search with dit > 0 evaluates get_snr once for each of ndit = 1,
\* 2, ..., goes to no ndit beyond the first with ndit * dit >= 3 hours, returns the
\* last ndit it evaluated, and ends
C9_SearchTerminates ==
    /\ []((etc.op = "get_ndit" /\ etc.dit > 0)
            => /\ etc.snr_evals = etc.ndit
               /\ (etc.ndit - 1) * etc.dit < 3 * hour
               /\ etc.pc = "while" => etc.ndit * etc.dit < 3 * hour
               /\ Returned(etc) => etc.ret = etc.ndit)
    /\ (etc.pc # "idle") ~> (etc.pc = "idle")

\* a search that stopped at 3 hours, after three or more exposures, below its target
C9_Witness ==
    /\ Returned(etc) /\ etc.ret >= 3
    /\ etc.ret * etc.dit >= 3 * hour
    /\ SnrLess(etc.snr_n, etc.snr)

\* the search ran an iteration with ndit * dit >= 1 hour whose signal-to-noise
\* ratio was below the target: an iteration before the last (the loop went on, so
\* its ratio was below the target), or the last one
CrossedUnmet(self) ==
    \/ self.ret >= 2 /\ (self.ret - 1) * self.dit >= 1 * hour
    \/ self.ret >= 1 /\ self.ret * self.dit >= 1 * hour /\ SnrLess(self.snr_n, self.snr)

\* C10 as claimed: a get_ndit call prints the 1 hour warning at most once, and
\* prints it exactly when it ran an iteration with ndit * dit >= 1 hour whose
\* signal-to-noise ratio was below the target
C10_WarnedIffUnmet ==
    Returned(etc)
        => /\ Count(etc.stdout, OneHourWarning) <= 1
           /\ Count(etc.stdout, OneHourWarning) = 1 <=> CrossedUnmet(etc)

\* C10 as amended: a get_ndit call prints the 1 hour warning at most once, and has
\* printed it exactly when it completed the get_snr evaluation of an ndit with
\* ndit * dit >= 1 hour, whatever that signal-to-noise ratio is
C10_WarnedIffCrossed ==
    (etc.op = "get_ndit" /\ etc.raised = "none")
        => /\ Count(etc.stdout, OneHourWarning) <= 1
           /\ Count(etc.stdout, OneHourWarning) = 1
                <=> (etc.ndit >= 1 /\ etc.ndit * etc.dit >= 1 * hour)

\* a search that went on for two or more exposures after the one that crossed 1
\* hour, and printed the warning once
C10_Witness ==
    /\ Returned(etc)
    /\ (etc.ret - 2) * etc.dit >= 1 * hour
    /\ Count(etc.stdout, OneHourWarning) = 1

====
